---- MODULE Spec2Model ----
(***************************************************************************)
(* Verification model of the wave-gradient engine.                         *)
(*                                                                         *)
(* Three generations of the engine live in the repository:                 *)
(*   - the ClipSpace engine  packages/wave-gradient/src/wave-gradient.js   *)
(*     (lines 1-664): render / resize / destroy, flag shouldRender;        *)
(*   - the twgl engine       packages/wave-gradients/src/wave-gradients.js *)
(*     animate / play / pause / resize, flag state.playing;                *)
(*   - the three.js engine   packages/wave-gradients/src/gradient.js       *)
(*     (lines 472-645): animate / play / pause / resize / dispose.         *)
(* Each is modelled as its own specification over the same variables:      *)
(* Spec (ClipSpace), SpecTwgl, SpecThree.  SpecNew is the construction of  *)
(* the ClipSpace engine from a canvas and its options, SpecGeometry the    *)
(* contents of the buffers createGeometry fills, and SpecLive the          *)
(* ClipSpace engine running under fair dispatch of animation frames.       *)
(*                                                                         *)
(* Units.  Timestamps (now, lastFrameTime, frameInterval) are whole        *)
(* milliseconds; fps is drawn from values that divide 1000.  speed is a    *)
(* rational with denominator SpeedDen, so the animation time is held in    *)
(* units of 1/SpeedDen ms (field time).                                    *)
(***************************************************************************)
EXTENDS Integers, Sequences, FiniteSets, TLC

VARIABLES
    self,       \* the engine object's own fields (this.*)
    clipSpace,  \* the GPU objects and uniform values the engine owns
    canvas,     \* the drawing surface: backing size and live (client) size
    now,        \* timestamp of the last dispatched animation frame
    pending,    \* frame callbacks registered with requestAnimationFrame
    running,    \* callbacks of the frame being dispatched that have not run yet
    lastOp,     \* the handler that ran last
    effects,    \* what that handler did, in program order
    threw,      \* whether that handler ended by throwing
    obs         \* history of rebuilds / draws since the last size change;
                \* under SpecNew, what the constructor is called with

vars == <<self, clipSpace, canvas, now, pending, running, lastOp, effects, threw, obs>>

---------------------------------------------------------------------------
\* Bounds of the model

MaxNow == 9
MaxStep == 5
MaxPending == 2
MaxDestroys == 2
MaxTimeWrites == 1
CountCap == 3

\* Program constants
SpeedDen == 4
DensityDen == 100
MsPerSecond == 1000
\* stands for -Infinity, the twgl and three.js engines' first lastFrameTime
NegInfinity == -1000000

NULL == "null"

FpsChoices == {250, 500}
\* speed 1.25 (the default) and a negative speed, as numerators over SpeedDen
SpeedChoices == {5, -4}
\* speed 1.25, the default
DefaultSpeed == 5
ClientSizes == {<<50, 50>>, <<100, 50>>}
\* density [0.06, 0.16] (the default), as numerators over DensityDen
Density == <<6, 16>>
\* values the owner writes to `time` (in 1/SpeedDen ms)
TimeWrites == {12}

Min(a, b) == IF a < b THEN a ELSE b

\* Math.ceil of the non-negative rational num/den
Ceil(num, den) == (num + den - 1) \div den

\* The effects that are calls into the GPU context
GpuCalls ==
    {"viewport", "uniform2f(resolution)", "uniform1f(realtime)",
     "bufferData(ARRAY_BUFFER)", "bufferData(ELEMENT_ARRAY_BUFFER)",
     "drawElements", "deleteProgram", "deleteBuffer(position)",
     "deleteBuffer(elements)", "createBuffer", "clear", "useProgram",
     "render(scene)", "dispose(geometry)", "dispose(material)",
     "dispose(renderer)"}

\* uniform writes, buffer uploads and draws
GpuWork ==
    {"uniform2f(resolution)", "uniform1f(realtime)",
     "bufferData(ARRAY_BUFFER)", "bufferData(ELEMENT_ARRAY_BUFFER)",
     "drawElements", "render(scene)"}

Has(fx, e) == \E i \in 1..Len(fx) : fx[i] = e
Count(fx, e) == Cardinality({i \in 1..Len(fx) : fx[i] = e})
\* index of the first occurrence of e in fx, 0 when absent
IndexOf(fx, e) ==
    IF Has(fx, e) THEN CHOOSE i \in 1..Len(fx) : fx[i] = e /\ \A j \in 1..(i-1) : fx[j] # e
    ELSE 0

\* The state a handler works on, and what it has done so far
Machine ==
    [self |-> self, clipSpace |-> clipSpace, canvas |-> canvas,
     effects |-> <<>>, frames |-> <<>>, threw |-> FALSE]

Do(st, e) == [st EXCEPT !.effects = Append(@, e)]

---------------------------------------------------------------------------
\* Geometry generator

createGeometry(widthNum, depthNum) ==
    LET gridX == Ceil(widthNum, DensityDen)
        gridZ == Ceil(depthNum, DensityDen)
    IN  [positions |-> [gridX |-> gridX, gridZ |-> gridZ,
                        length |-> 3 * (gridX + 1) * (gridZ + 1)],
         indices   |-> [gridX |-> gridX, gridZ |-> gridZ,
                        length |-> 3 * 2 * gridX * gridZ],
         count     |-> 3 * 2 * gridX * gridZ]

---------------------------------------------------------------------------
\* ClipSpace: the GPU program wrapper

UniformCall == [resolution |-> "uniform2f(resolution)", realtime |-> "uniform1f(realtime)"]

setUniform(st, uniformName, newValue) ==
    Do([st EXCEPT !.clipSpace.uniforms[uniformName] = newValue], UniformCall[uniformName])

setAttribute(st, dataBuffer) ==
    Do([st EXCEPT !.clipSpace.arrayData = dataBuffer], "bufferData(ARRAY_BUFFER)")

setElements(st, elements) ==
    LET s1 == IF st.clipSpace.elementBuffer = NULL
              THEN Do([st EXCEPT !.clipSpace.elementBuffer = "live"], "createBuffer")
              ELSE st
    IN  Do([s1 EXCEPT !.clipSpace.elementData = elements], "bufferData(ELEMENT_ARRAY_BUFFER)")

ClipSpace_delete(st) ==
    LET s1 == Do([st EXCEPT !.clipSpace.program = "deleted"], "deleteProgram")
    IN  Do([s1 EXCEPT !.clipSpace.positionBuffer = "deleted"], "deleteBuffer(position)")

---------------------------------------------------------------------------
\* WaveGradient (ClipSpace engine)

\* The engine as the constructor leaves it, for a surface of clientSize
WaveGradient(clientSize, fps, speed, time) ==
    LET geometry == createGeometry(clientSize[1] * Density[1], clientSize[2] * Density[2])
    IN  [self |->
            [gl |-> "gl", clipSpace |-> "clipSpace", speed |-> speed, frameInterval |-> MsPerSecond \div fps,
             lastFrameTime |-> 0, shouldRender |-> TRUE,
             drawCount |-> geometry.count, time |-> time],
         clipSpace |->
            [program |-> "live", positionBuffer |-> "live", elementBuffer |-> "live",
             arrayData |-> geometry.positions, elementData |-> geometry.indices,
             uniforms |-> [resolution |-> clientSize, realtime |-> time]],
         canvas |->
            [width |-> clientSize[1], height |-> clientSize[2],
             clientWidth |-> clientSize[1], clientHeight |-> clientSize[2]],
         frames |-> <<"render">>]

resize_unguarded(st) ==
    IF st.self.gl = NULL
    THEN [st EXCEPT !.threw = TRUE]
    ELSE LET c  == st.canvas
             s1 == Do([st EXCEPT !.canvas.width = c.clientWidth,
                                 !.canvas.height = c.clientHeight], "viewport")
             s2 == setUniform(s1, "resolution", <<c.clientWidth, c.clientHeight>>)
             geometry == createGeometry(c.clientWidth * Density[1],
                                        c.clientHeight * Density[2])
             s3 == setAttribute(Do(s2, "createGeometry"), geometry.positions)
             s4 == setElements(s3, geometry.indices)
         IN  [s4 EXCEPT !.self.drawCount = geometry.count]

resize_staleCache(st) ==
    IF st.self.gl = NULL
    THEN [st EXCEPT !.threw = TRUE]
    ELSE LET c == st.canvas
             resized == c.width # c.clientWidth \/ c.height # c.clientHeight
         IN  IF ~resized
             THEN st
             ELSE LET s1 == Do(st, "viewport")
                      s2 == setUniform(s1, "resolution", <<c.clientWidth, c.clientHeight>>)
                      geometry == createGeometry(c.clientWidth * Density[1],
                                                 c.clientHeight * Density[2])
                      s3 == setAttribute(Do(s2, "createGeometry"), geometry.positions)
                      s4 == setElements(s3, geometry.indices)
                  IN  [s4 EXCEPT !.self.drawCount = geometry.count]

resize_newBuffers(st) ==
    IF st.self.gl = NULL
    THEN [st EXCEPT !.threw = TRUE]
    ELSE LET c == st.canvas
             resized == c.width # c.clientWidth \/ c.height # c.clientHeight
         IN  IF ~resized
             THEN st
             ELSE LET s1 == Do([st EXCEPT !.canvas.width = c.clientWidth,
                                          !.canvas.height = c.clientHeight], "viewport")
                      s2 == setUniform(s1, "resolution", <<c.clientWidth, c.clientHeight>>)
                      geometry == createGeometry(c.clientWidth * Density[1],
                                                 c.clientHeight * Density[2])
                      s3 == Do(setAttribute(Do(Do(s2, "createGeometry"), "createBuffer"),
                                            geometry.positions), "vertexAttribPointer")
                      s4 == setElements(s3, geometry.indices)
                  IN  [s4 EXCEPT !.self.drawCount = geometry.count]

resize_keepsDrawCount(st) ==
    IF st.self.gl = NULL
    THEN [st EXCEPT !.threw = TRUE]
    ELSE LET c == st.canvas
             resized == c.width # c.clientWidth \/ c.height # c.clientHeight
         IN  IF ~resized
             THEN st
             ELSE LET s1 == Do([st EXCEPT !.canvas.width = c.clientWidth,
                                          !.canvas.height = c.clientHeight], "viewport")
                      s2 == setUniform(s1, "resolution", <<c.clientWidth, c.clientHeight>>)
                      geometry == createGeometry(c.clientWidth * Density[1],
                                                 c.clientHeight * Density[2])
                      s3 == setAttribute(Do(s2, "createGeometry"), geometry.positions)
                  IN  setElements(s3, geometry.indices)

resize(st) ==
    IF st.self.gl = NULL
    THEN [st EXCEPT !.threw = TRUE]
    ELSE LET c == st.canvas
             resized == c.width # c.clientWidth \/ c.height # c.clientHeight
         IN  IF ~resized
             THEN st
             ELSE LET s1 == Do([st EXCEPT !.canvas.width = c.clientWidth,
                                          !.canvas.height = c.clientHeight], "viewport")
                      s2 == setUniform(s1, "resolution", <<c.clientWidth, c.clientHeight>>)
                      geometry == createGeometry(c.clientWidth * Density[1],
                                                 c.clientHeight * Density[2])
                      s3 == setAttribute(Do(s2, "createGeometry"), geometry.positions)
                      s4 == setElements(s3, geometry.indices)
                  IN  [s4 EXCEPT !.self.drawCount = geometry.count]

elapsed_noMin(delta, frameInterval, speed) == delta * speed

\* Math.min(delta, this.frameInterval) * this.speed
elapsed(delta, frameInterval, speed) == Min(delta, frameInterval) * speed

drawElements(st) ==
    IF st.self.gl = NULL THEN [st EXCEPT !.threw = TRUE] ELSE Do(st, "drawElements")

render_staleUniform(st, timestamp, random) ==
    IF ~st.self.shouldRender
    THEN st
    ELSE LET s0 == [st EXCEPT !.frames = Append(@, "render")]
             delta == timestamp - st.self.lastFrameTime
             frameInterval == st.self.frameInterval
         IN  IF delta < frameInterval
             THEN IF random THEN resize(s0) ELSE s0
             ELSE LET s1 == [s0 EXCEPT
                                !.self.lastFrameTime = timestamp - (delta % frameInterval),
                                !.self.time = @ + elapsed(delta, frameInterval,
                                                                st.self.speed)]
                      s2 == setUniform(s1, "realtime", st.self.time)
                  IN  drawElements(s2)

render_noSkip(st, timestamp, random) ==
    IF ~st.self.shouldRender
    THEN st
    ELSE LET s0 == [st EXCEPT !.frames = Append(@, "render")]
             delta == timestamp - st.self.lastFrameTime
             frameInterval == st.self.frameInterval
             s1 == [s0 EXCEPT
                       !.self.lastFrameTime = timestamp - (delta % frameInterval),
                       !.self.time = @ + elapsed(delta, frameInterval, st.self.speed)]
             s2 == setUniform(s1, "realtime", s1.self.time)
         IN  drawElements(s2)

render_alwaysReschedules(st, timestamp, random) ==
    LET s0 == [st EXCEPT !.frames = Append(@, "render")]
        delta == timestamp - st.self.lastFrameTime
        frameInterval == st.self.frameInterval
    IN  IF ~st.self.shouldRender
        THEN s0
        ELSE IF delta < frameInterval
             THEN IF random THEN resize(s0) ELSE s0
             ELSE LET s1 == [s0 EXCEPT
                                !.self.lastFrameTime = timestamp - (delta % frameInterval),
                                !.self.time = @ + elapsed(delta, frameInterval,
                                                                st.self.speed)]
                      s2 == setUniform(s1, "realtime", s1.self.time)
                  IN  drawElements(s2)

render_plainTimestamp(st, timestamp, random) ==
    IF ~st.self.shouldRender
    THEN st
    ELSE LET s0 == [st EXCEPT !.frames = Append(@, "render")]
             delta == timestamp - st.self.lastFrameTime
             frameInterval == st.self.frameInterval
         IN  IF delta < frameInterval
             THEN IF random THEN resize(s0) ELSE s0
             ELSE LET s1 == [s0 EXCEPT
                                !.self.lastFrameTime = timestamp,
                                !.self.time = @ + elapsed(delta, frameInterval,
                                                                st.self.speed)]
                      s2 == setUniform(s1, "realtime", s1.self.time)
                  IN  drawElements(s2)

\* render(now); random is the outcome of Math.random() > 0.75
render(st, timestamp, random) ==
    IF ~st.self.shouldRender
    THEN st
    ELSE LET s0 == [st EXCEPT !.frames = Append(@, "render")]
             delta == timestamp - st.self.lastFrameTime
             frameInterval == st.self.frameInterval
         IN  IF delta < frameInterval
             THEN IF random THEN resize(s0) ELSE s0
             ELSE LET s1 == [s0 EXCEPT
                                !.self.lastFrameTime = timestamp - (delta % frameInterval),
                                !.self.time = @ + elapsed(delta, frameInterval,
                                                                st.self.speed)]
                      s2 == setUniform(s1, "realtime", s1.self.time)
                  IN  drawElements(s2)

\* this.clipSpace.delete(): a TypeError when the reference is null
deleteClipSpace(st) ==
    IF st.self.clipSpace = NULL THEN [st EXCEPT !.threw = TRUE] ELSE ClipSpace_delete(st)

destroy_keepsRendering(st) ==
    LET s1 == deleteClipSpace(st)
    IN  IF s1.threw THEN s1 ELSE Do([s1 EXCEPT !.self.gl = NULL], "gl=null")

destroy_nullsClipSpace(st) ==
    LET s1 == deleteClipSpace(st)
    IN  IF s1.threw
        THEN s1
        ELSE LET s2 == Do([s1 EXCEPT !.self.gl = NULL, !.self.clipSpace = NULL], "gl=null")
             IN  Do([s2 EXCEPT !.self.shouldRender = FALSE], "shouldRender=false")

destroy_stopsFirst(st) ==
    LET s0 == Do([st EXCEPT !.self.shouldRender = FALSE], "shouldRender=false")
        s1 == deleteClipSpace(s0)
    IN  IF s1.threw THEN s1 ELSE Do([s1 EXCEPT !.self.gl = NULL], "gl=null")

destroy(st) ==
    LET s1 == deleteClipSpace(st)
    IN  IF s1.threw
        THEN s1
        ELSE LET s2 == Do([s1 EXCEPT !.self.gl = NULL], "gl=null")
             IN  Do([s2 EXCEPT !.self.shouldRender = FALSE], "shouldRender=false")

---------------------------------------------------------------------------
\* History kept for the claims: rebuilds and resolution updates since the
\* surface last changed size, what they were at the first draw after the
\* change, and how many times destroy() was called.

ObsInit ==
    [phase |-> "steady", rebuilds |-> 0, resUpdates |-> 0, drawnWith |-> <<0, 0>>,
     destroys |-> 0, timeWrites |-> 0]

ObserveOne(o, e) ==
    CASE e = "createGeometry" -> [o EXCEPT !.rebuilds = Min(@ + 1, CountCap)]
      [] e = "uniform2f(resolution)" -> [o EXCEPT !.resUpdates = Min(@ + 1, CountCap)]
      [] e \in {"drawElements", "render(scene)"} /\ o.phase = "changed" ->
            [o EXCEPT !.phase = "drawn", !.drawnWith = <<o.rebuilds, o.resUpdates>>]
      [] OTHER -> o

RECURSIVE Observe(_, _)
Observe(o, fx) == IF fx = <<>> THEN o ELSE Observe(ObserveOne(o, Head(fx)), Tail(fx))

\* The handler op ended in st; rest are the callbacks still registered
Apply(op, st, rest) ==
    /\ self' = st.self
    /\ clipSpace' = st.clipSpace
    /\ canvas' = st.canvas
    /\ effects' = st.effects
    /\ threw' = st.threw
    /\ pending' = rest \o st.frames
    /\ lastOp' = op

\* ... with the rebuild history kept (ClipSpace engine)
Commit(op, st, rest) ==
    /\ Apply(op, st, rest)
    /\ obs' = Observe(obs, st.effects)

---------------------------------------------------------------------------
\* Spec: the ClipSpace engine

Init ==
    \E size \in ClientSizes, fps \in FpsChoices, speed \in SpeedChoices :
        LET e == WaveGradient(size, fps, speed, 0)
        IN  /\ self = e.self
            /\ clipSpace = e.clipSpace
            /\ canvas = e.canvas
            /\ pending = e.frames
            /\ running = <<>>
            /\ now = 0
            /\ lastOp = "constructor"
            /\ effects = <<>>
            /\ threw = FALSE
            /\ obs = ObsInit

\* The host dispatches the next animation frame, step ms after the last one
Frame ==
    \E step \in 1..MaxStep, random \in BOOLEAN :
        /\ pending # <<>>
        /\ running = <<>>
        /\ now + step <= MaxNow
        /\ now' = now + step
        /\ running' = running
        /\ Commit("render", render(Machine, now + step, random), Tail(pending))

\* resize() called by the host
Resize ==
    /\ running = <<>>
    /\ Commit("resize", resize(Machine), pending)
    /\ UNCHANGED <<now, running>>

\* destroy() called by the host
Destroy ==
    /\ running = <<>>
    /\ obs.destroys < MaxDestroys
    /\ Apply("destroy", destroy(Machine), pending)
    /\ obs' = [obs EXCEPT !.destroys = @ + 1]
    /\ UNCHANGED <<now, running>>

\* the owner writes `time`
SetTime ==
    \E t \in TimeWrites :
        /\ running = <<>>
        /\ obs.timeWrites < MaxTimeWrites
        /\ self' = [self EXCEPT !.time = t]
        /\ obs' = [obs EXCEPT !.timeWrites = @ + 1]
        /\ lastOp' = "setTime"
        /\ effects' = <<>>
        /\ threw' = FALSE
        /\ UNCHANGED <<clipSpace, canvas, now, pending, running>>

\* the surface changes its displayed size
SizeChange ==
    \E size \in ClientSizes :
        /\ running = <<>>
        /\ size # <<canvas.clientWidth, canvas.clientHeight>>
        /\ canvas' = [canvas EXCEPT !.clientWidth = size[1], !.clientHeight = size[2]]
        /\ obs' = [obs EXCEPT !.phase = "changed", !.rebuilds = 0, !.resUpdates = 0,
                              !.drawnWith = <<0, 0>>]
        /\ lastOp' = "sizeChange"
        /\ effects' = <<>>
        /\ threw' = FALSE
        /\ UNCHANGED <<self, clipSpace, now, pending, running>>

Next == Frame \/ Resize \/ Destroy \/ SetTime \/ SizeChange

Spec == Init /\ [][Next]_vars

---------------------------------------------------------------------------
\* The twgl engine (packages/wave-gradients/src/wave-gradients.js)

twgl_createGeometry(width, depth) ==
    LET gridX == Ceil(Density[1] * width, DensityDen)
        gridZ == Ceil(Density[2] * depth, DensityDen)
    IN  [gridX |-> gridX, gridZ |-> gridZ, numElements |-> 6 * gridX * gridZ]

\* render(gradient): uploads every uniform and draws
twgl_render(st) ==
    LET s1 == Do(Do(st, "clear"), "useProgram")
        s2 == Do([s1 EXCEPT !.clipSpace.elementData = st.self.geometry], "setBuffersAndAttributes")
        s3 == Do(Do([s2 EXCEPT !.clipSpace.uniforms =
                                  [resolution |-> st.self.uniforms.u_Resolution,
                                   realtime |-> st.self.uniforms.u_Realtime]],
                    "uniform2f(resolution)"), "uniform1f(realtime)")
    IN  Do(s3, "drawElements")

twgl_animate(st, timestamp) ==
    LET frameTime == MsPerSecond \div st.self.fps
        timeIncrement == timestamp - st.self.lastFrameTime
        shouldSkipFrame == timestamp - st.self.lastFrameTime < frameTime
        time == st.self.time + Min(timeIncrement, frameTime) * st.self.speed
        s1 == IF ~shouldSkipFrame
              THEN twgl_render([st EXCEPT !.self.time = time,
                                          !.self.lastFrameTime = timestamp,
                                          !.self.uniforms.u_Realtime = time])
              ELSE st
    IN  IF s1.self.playing THEN [s1 EXCEPT !.frames = Append(@, "animate")] ELSE s1

\* The engine as the constructor leaves it
twgl_WaveGradient(clientSize, fps, speed, time) ==
    [self |->
        [playing |-> FALSE, lastFrameTime |-> NegInfinity, fps |-> fps, speed |-> speed,
         time |-> time,
         uniforms |-> [u_Resolution |-> clientSize, u_Realtime |-> time],
         geometry |-> twgl_createGeometry(clientSize[1], clientSize[2])],
     clipSpace |->
        [program |-> "live",
         elementData |-> twgl_createGeometry(clientSize[1], clientSize[2]),
         uniforms |-> [resolution |-> clientSize, realtime |-> time]],
     canvas |->
        [width |-> clientSize[1], height |-> clientSize[2],
         clientWidth |-> clientSize[1], clientHeight |-> clientSize[2]],
     frames |-> <<"renderOnce">>]

twgl_play(st) ==
    IF ~st.self.playing
    THEN [st EXCEPT !.self.playing = TRUE, !.frames = Append(@, "animate")]
    ELSE st

twgl_pause(st) ==
    IF st.self.playing THEN [st EXCEPT !.self.playing = FALSE] ELSE st

twgl_resize(st) ==
    LET c  == st.canvas
        s1 == Do([st EXCEPT !.canvas.width = c.clientWidth,
                            !.canvas.height = c.clientHeight], "viewport")
        s2 == [s1 EXCEPT !.self.uniforms.u_Resolution = <<c.clientWidth, c.clientHeight>>,
                         !.self.geometry = twgl_createGeometry(c.clientWidth, c.clientHeight)]
        s3 == Do(Do(Do(s2, "createGeometry"), "createBuffer"), "bufferData(ARRAY_BUFFER)")
    IN  IF ~s3.self.playing THEN [s3 EXCEPT !.frames = Append(@, "renderOnce")] ELSE s3

twgl_callback(cb, st, timestamp) ==
    IF cb = "animate" THEN twgl_animate(st, timestamp) ELSE twgl_render(st)

TwglInit ==
    \E size \in ClientSizes, fps \in FpsChoices :
        LET e == twgl_WaveGradient(size, fps, DefaultSpeed, 0)
        IN  /\ self = e.self
            /\ clipSpace = e.clipSpace
            /\ canvas = e.canvas
            /\ pending = e.frames
            /\ running = <<>>
            /\ now = 0
            /\ lastOp = "constructor"
            /\ effects = <<>>
            /\ threw = FALSE
            /\ obs = ObsInit

\* The host dispatches a new animation frame and runs its first callback
TwglFrame ==
    \E step \in 1..MaxStep :
        /\ pending # <<>>
        /\ running = <<>>
        /\ now + step <= MaxNow
        /\ now' = now + step
        /\ obs' = obs
        /\ running' = Tail(pending)
        /\ Apply(Head(pending), twgl_callback(Head(pending), Machine, now + step), <<>>)

\* ... and then the other callbacks of the same frame, with the same timestamp
TwglSameFrame ==
    /\ running # <<>>
    /\ now' = now
    /\ obs' = obs
    /\ running' = Tail(running)
    /\ Apply(Head(running), twgl_callback(Head(running), Machine, now), pending)

TwglPlay ==
    /\ running = <<>>
    /\ Len(pending) < MaxPending
    /\ Apply("play", twgl_play(Machine), pending)
    /\ UNCHANGED <<now, running, obs>>

TwglPause ==
    /\ running = <<>>
    /\ Apply("pause", twgl_pause(Machine), pending)
    /\ UNCHANGED <<now, running, obs>>

TwglResize ==
    /\ running = <<>>
    /\ Len(pending) < MaxPending
    /\ Apply("resize", twgl_resize(Machine), pending)
    /\ UNCHANGED <<now, running, obs>>

TwglNext ==
    TwglFrame \/ TwglSameFrame \/ TwglPlay \/ TwglPause \/ TwglResize \/ SetTime \/ SizeChange

SpecTwgl == TwglInit /\ [][TwglNext]_vars

---------------------------------------------------------------------------
\* The three.js engine (packages/wave-gradients/src/gradient.js, lines 472-645)

three_animate(st, timestamp) ==
    LET frameTime == MsPerSecond \div st.self.fps
        shouldSkipFrame == timestamp - st.self.lastFrameTime < frameTime
        time == st.self.time + Min(timestamp - st.self.lastFrameTime, frameTime)
        s1 == IF ~shouldSkipFrame
              THEN Do([st EXCEPT !.self.time = time,
                                 !.self.lastFrameTime = timestamp,
                                 !.clipSpace.uniforms.realtime = time], "render(scene)")
              ELSE st
    IN  IF s1.self.playing THEN [s1 EXCEPT !.frames = Append(@, "animate")] ELSE s1

\* The engine as the constructor leaves it
three_WaveGradient(clientSize, fps, time) ==
    [self |->
        [playing |-> FALSE, lastFrameTime |-> NegInfinity, fps |-> fps, time |-> time],
     clipSpace |->
        [geometry |-> "live", material |-> "live", renderer |-> "live",
         uniforms |-> [resolution |-> clientSize, realtime |-> time]],
     canvas |->
        [width |-> clientSize[1], height |-> clientSize[2],
         clientWidth |-> clientSize[1], clientHeight |-> clientSize[2]],
     frames |-> <<"animate">>]

three_play(st) ==
    IF ~st.self.playing
    THEN [st EXCEPT !.self.playing = TRUE, !.frames = Append(@, "animate")]
    ELSE st

three_pause(st) ==
    IF st.self.playing THEN [st EXCEPT !.self.playing = FALSE] ELSE st

three_resize(st) ==
    LET c  == st.canvas
        s1 == Do(Do([st EXCEPT !.clipSpace.geometry = "live"], "dispose(geometry)"),
                 "createGeometry")
        s2 == Do([s1 EXCEPT !.canvas.width = c.clientWidth,
                            !.canvas.height = c.clientHeight], "setSize")
    IN  [s2 EXCEPT !.clipSpace.uniforms.resolution = <<c.clientWidth, c.clientHeight>>]

three_dispose(st) ==
    LET s1 == Do(Do(st, "clear(scene)"), "dispose(geometry)")
        s2 == Do(Do(s1, "dispose(material)"), "dispose(renderer)")
    IN  [s2 EXCEPT !.clipSpace.geometry = "disposed", !.clipSpace.material = "disposed",
                   !.clipSpace.renderer = "disposed", !.self.playing = FALSE]

ThreeInit ==
    \E size \in ClientSizes, fps \in FpsChoices :
        LET e == three_WaveGradient(size, fps, 0)
        IN  /\ self = e.self
            /\ clipSpace = e.clipSpace
            /\ canvas = e.canvas
            /\ pending = e.frames
            /\ running = <<>>
            /\ now = 0
            /\ lastOp = "constructor"
            /\ effects = <<>>
            /\ threw = FALSE
            /\ obs = ObsInit

ThreeFrame ==
    \E step \in 1..MaxStep :
        /\ pending # <<>>
        /\ running = <<>>
        /\ now + step <= MaxNow
        /\ now' = now + step
        /\ obs' = obs
        /\ running' = Tail(pending)
        /\ Apply("animate", three_animate(Machine, now + step), <<>>)

ThreeSameFrame ==
    /\ running # <<>>
    /\ now' = now
    /\ obs' = obs
    /\ running' = Tail(running)
    /\ Apply("animate", three_animate(Machine, now), pending)

ThreePlay ==
    /\ running = <<>>
    /\ Len(pending) < MaxPending
    /\ Apply("play", three_play(Machine), pending)
    /\ UNCHANGED <<now, running, obs>>

ThreePause ==
    /\ running = <<>>
    /\ Apply("pause", three_pause(Machine), pending)
    /\ UNCHANGED <<now, running, obs>>

ThreeResize ==
    /\ running = <<>>
    /\ Apply("resize", three_resize(Machine), pending)
    /\ UNCHANGED <<now, running, obs>>

ThreeDispose ==
    /\ running = <<>>
    /\ Apply("dispose", three_dispose(Machine), pending)
    /\ UNCHANGED <<now, running, obs>>

ThreeNext ==
    \/ ThreeFrame \/ ThreeSameFrame \/ ThreePlay \/ ThreePause
    \/ ThreeResize \/ ThreeDispose \/ SetTime \/ SizeChange

SpecThree == ThreeInit /\ [][ThreeNext]_vars

---------------------------------------------------------------------------
\* Claims checked under Spec

NoGpuWork(fx) == \A i \in 1..Len(fx) : fx[i] \notin GpuWork
NoGpuCall(fx) == \A i \in 1..Len(fx) : fx[i] \notin GpuCalls
SizeUnchanged == canvas.width = canvas.clientWidth /\ canvas.height = canvas.clientHeight

\* C1: once destroy() has returned (the context reference is null) no handler
\* issues a uniform write, a buffer upload or a draw, and a frame callback
\* that was already registered returns without registering another one.
C1_NoGpuWorkAfterDestroy ==
    self.gl = NULL =>
        /\ NoGpuWork(effects)
        /\ (lastOp = "render" => pending = <<>>)

C1_Witness == self.gl = NULL /\ lastOp = "render"

C4_TimeAdvance ==
    [][(lastOp' = "render" /\ self.speed > 0) =>
          /\ self'.time >= self.time
          /\ (Has(effects', "drawElements") =>
                self'.time = self.time
                    + self.speed * Min(now' - self.lastFrameTime, self.frameInterval))]_vars

C4_Witness ==
    /\ lastOp = "render" /\ Has(effects, "drawElements")
    /\ self.speed > 0 /\ self.lastFrameTime < now

\* C6: destroy() completes normally in every reachable state, also after an
\* earlier destroy().
C6_DestroyNeverThrows == lastOp = "destroy" => ~threw

C6_Witness == lastOp = "destroy" /\ obs.destroys = 2 /\ ~threw

\* C7 (as claimed): destroy() on an engine already destroyed issues no GPU
\* call and leaves the engine as the first call left it.
C7_SecondDestroyIsNoOp ==
    [][(self.gl = NULL /\ lastOp' = "destroy") =>
          /\ NoGpuCall(effects')
          /\ self' = self /\ clipSpace' = clipSpace /\ canvas' = canvas]_vars

\* C8 (as claimed): in destroy() the render flag is cleared before the
\* wrapper is deleted, and the engine is marked destroyed after the deletion.
C8_StopBeforeDelete ==
    (lastOp = "destroy" /\ ~threw) =>
        /\ IndexOf(effects, "shouldRender=false") < IndexOf(effects, "deleteProgram")
        /\ IndexOf(effects, "deleteBuffer(position)") < IndexOf(effects, "gl=null")

\* C8 (amended): in destroy() the wrapper is deleted first, then the context
\* reference is cleared, and the render flag is cleared last.
C8_DeleteBeforeStop ==
    (lastOp = "destroy" /\ ~threw) =>
        /\ 0 < IndexOf(effects, "deleteProgram")
        /\ IndexOf(effects, "deleteProgram") < IndexOf(effects, "deleteBuffer(position)")
        /\ IndexOf(effects, "deleteBuffer(position)") < IndexOf(effects, "gl=null")
        /\ IndexOf(effects, "gl=null") < IndexOf(effects, "shouldRender=false")
        /\ ~self.shouldRender

C8_Witness == lastOp = "destroy" /\ ~threw /\ pending # <<>>

\* C9 (as claimed): after delete() the program, the position buffer and the
\* element buffer are all deleted.
C9_DeleteReleasesAll ==
    clipSpace.program = "deleted" =>
        /\ clipSpace.positionBuffer = "deleted"
        /\ clipSpace.elementBuffer = "deleted"

---------------------------------------------------------------------------
\* Claims checked under SpecTwgl

\* C3 (as claimed): while paused, no frame callback changes time or draws,
\* the callback registered before pause() included.
C3_PausedTimeUnchanged ==
    [][(~self.playing /\ lastOp' = "animate") =>
          /\ self'.time = self.time
          /\ ~Has(effects', "drawElements")]_vars

---------------------------------------------------------------------------
\* Claims checked under SpecThree

Disposed == clipSpace.renderer = "disposed"

\* C5 (as claimed): once the engine is destroyed no operation makes it run
\* again, registers a frame callback or draws.
C5_DestroyedIsTerminal ==
    [][Disposed =>
          /\ ~self'.playing
          /\ Len(pending') + Len(running') <= Len(pending) + Len(running)
          /\ ~Has(effects', "render(scene)")]_vars

---------------------------------------------------------------------------
\* Construction of the ClipSpace engine: new WaveGradient(canvas, options)
\* (packages/wave-gradient/src/wave-gradient.js, lines 15-24 and 424-575)

MaxColors == 11
MaxSeed == 1
\* new Array(9): the capacity of the waveLayers uniform
LayerCap == 9

\* A colors element: a string, held as its characters, or a value of
\* another type
Str(chars) == [type |-> "string", chars |-> chars]
NotAString == [type |-> "number", chars |-> <<>>]

Palette ==
    << Str(<<"#", "e", "f", "0", "0", "8", "f">>),
       Str(<<"6", "E", "C", "3", "F", "4">>),
       Str(<<"#", "f", "b", "a">>),
       Str(<<"0", "0", "0">>) >>

\* strings that are not hex colors: "red", "#ef008", "" and "#ef008fff"
BadStrings ==
    { Str(<<"r", "e", "d">>), Str(<<"#", "e", "f", "0", "0", "8">>), Str(<<>>),
      Str(<<"#", "e", "f", "0", "0", "8", "f", "f", "f">>) }

HexDigits ==
    <<"0", "1", "2", "3", "4", "5", "6", "7", "8", "9", "a", "b", "c", "d", "e", "f">>
UpperHex == [A |-> "a", B |-> "b", C |-> "c", D |-> "d", E |-> "e", F |-> "f"]

\* the i flag of the regular expressions
Lower(c) == IF c \in DOMAIN UpperHex THEN UpperHex[c] ELSE c
\* [a-f\d] under the i flag
IsHex(c) == \E i \in 1..Len(HexDigits) : HexDigits[i] = Lower(c)
\* parseInt(c, 16) of one hex digit
HexVal(c) == (CHOOSE i \in 1..Len(HexDigits) : HexDigits[i] = Lower(c)) - 1

\* the null that parseRGB returns for a string that matches neither pattern
NullColor == <<>>

\* parseRGB(hex) of a string: the three channels as numerators over 255
parseRGB(hex) ==
    LET digits == IF hex # <<>> /\ hex[1] = "#" THEN Tail(hex) ELSE hex
        allHex == \A i \in 1..Len(digits) : IsHex(digits[i])
    IN  IF allHex /\ Len(digits) = 6
        THEN [k \in 1..3 |-> 16 * HexVal(digits[2 * k - 1]) + HexVal(digits[2 * k])]
        ELSE IF allHex /\ Len(digits) = 3
        THEN [k \in 1..3 |-> 16 * HexVal(digits[k]) + HexVal(digits[k])]
        ELSE NullColor

\* hex.match(...) is a TypeError when colors[j] is undefined or not a string;
\* index is j + 1, the position of colors[j] in the sequence
parseThrows(colors, index) == index > Len(colors) \/ colors[index].type # "string"

\* Layer parameters are held as integers: noiseCeil and noiseFloor in
\* hundredths, noiseFlow and noiseSpeed in tenths, and noiseFreq as the two
\* numerators over the common denominator den (= colors.length).
emptyLayer ==
    [color |-> <<0, 0, 0>>, isSet |-> FALSE, noiseCeil |-> 0, noiseFloor |-> 0,
     noiseFlow |-> 0, noiseFreq |-> [num |-> <<0, 0>>, den |-> 1],
     noiseSeed |-> 0, noiseSpeed |-> 0]

waveLayer_zeroIndexed(j, colors, seed) ==
    [color      |-> parseRGB(colors[j + 1].chars),
     isSet      |-> TRUE,
     noiseCeil  |-> 63 + 7 * j,
     noiseFloor |-> 10,
     noiseFlow  |-> 65 + 3 * j,
     noiseFreq  |-> [num |-> <<3 * Len(colors) + (j - 1), 4 * Len(colors) + (j - 1)>>,
                     den |-> Len(colors)],
     noiseSeed  |-> seed + 10 * j,
     noiseSpeed |-> 110 + 3 * j]

\* the layer built for j = i + 1 from colors[j]
waveLayer(j, colors, seed) ==
    [color      |-> parseRGB(colors[j + 1].chars),
     isSet      |-> TRUE,
     noiseCeil  |-> 63 + 7 * j,
     noiseFloor |-> 10,
     noiseFlow  |-> 65 + 3 * j,
     noiseFreq  |-> [num |-> <<2 * Len(colors) + j, 3 * Len(colors) + j>>,
                     den |-> Len(colors)],
     noiseSeed  |-> seed + 10 * j,
     noiseSpeed |-> 110 + 3 * j]

waveLayers_eight(colors, seed) ==
    [k \in 1..LayerCap |->
        IF k - 1 >= Len(colors) - 1 \/ k = LayerCap THEN emptyLayer
        ELSE waveLayer(k, colors, seed)]

\* new Array(9).fill(empty).map((layer, i) => ...); entry k is index i = k - 1
waveLayers(colors, seed) ==
    [k \in 1..LayerCap |->
        IF k - 1 >= Len(colors) - 1 THEN emptyLayer ELSE waveLayer(k, colors, seed)]

\* evaluating the uniforms argument calls parseRGB(colors[0]) and then
\* parseRGB(colors[j]) for every layer that is built
uniformsThrow(colors) ==
    \/ parseThrows(colors, 1)
    \/ \E j \in 1..Min(Len(colors) - 1, LayerCap) : parseThrows(colors, j + 1)

NoEngine == [constructed |-> FALSE]

NoGpuObjects ==
    [vertexShader |-> NULL, fragmentShader |-> NULL,
     program |-> NULL, positionBuffer |-> NULL, elementBuffer |-> NULL,
     arrayData |-> NULL, elementData |-> NULL, uniforms |-> NULL]

\* what `new WaveGradient(canvas, options)` starts from
Blank(canvasIn) ==
    [self |-> NoEngine, clipSpace |-> NoGpuObjects, canvas |-> canvasIn,
     effects |-> <<>>, frames |-> <<>>, threw |-> FALSE]

acquireContext_unchecked(st, webgl2) ==
    IF webgl2 THEN Do(st, "getContext") ELSE st

\* canvas.getContext("webgl2", ...); if (!gl) throw
acquireContext(st, webgl2) ==
    IF webgl2 THEN Do(st, "getContext") ELSE [st EXCEPT !.threw = TRUE]

initialGeometry_xForBoth(canvasIn, density) ==
    createGeometry(canvasIn.clientWidth * density[1], canvasIn.clientHeight * density[1])

\* WaveGradient.createGeometry(clientWidth * density[0], clientHeight * density[1])
initialGeometry(canvasIn, density) ==
    createGeometry(canvasIn.clientWidth * density[1], canvasIn.clientHeight * density[2])

\* What the context may refuse while the program is built: gl.createShader or
\* gl.createProgram returning null, a shader that does not compile, a program
\* that does not link
ProgramFailures ==
    {"none", "createShader(vs)", "createShader(fs)", "createProgram", "compile", "link"}

\* compileShader(type, source) for the shader held in field; refused: gl.createShader
\* returns null.  gl.compileShader reports nothing here: a shader that does not
\* compile shows as LINK_STATUS false in debugPorgram.
compileShader(st, field, refused) ==
    IF refused
    THEN [Do(st, "createShader") EXCEPT !.threw = TRUE]
    ELSE Do(Do([st EXCEPT !.clipSpace[field] = "live"], "createShader"), "compileShader")

\* the finally block of createProgram
deleteShaders(st) ==
    Do(Do([st EXCEPT !.clipSpace.vertexShader = "deleted",
                     !.clipSpace.fragmentShader = "deleted"],
          "deleteShader"), "deleteShader")

\* createProgram(shaders)
createProgram(st, failure) ==
    LET s1 == compileShader(st, "vertexShader", failure = "createShader(vs)")
        s2 == compileShader(s1, "fragmentShader", failure = "createShader(fs)")
        s3 == Do(s2, "createProgram")
        s4 == Do([s3 EXCEPT !.clipSpace.program = "live"], "linkProgram")
    IN  IF s1.threw THEN s1
        ELSE IF s2.threw THEN s2
        ELSE IF failure = "createProgram" THEN [s3 EXCEPT !.threw = TRUE]
        ELSE IF failure \in {"compile", "link"}
        THEN [deleteShaders(Do([s4 EXCEPT !.clipSpace.program = "deleted"], "deleteProgram"))
                 EXCEPT !.threw = TRUE]
        ELSE Do(deleteShaders(s4), "useProgram")

setupAttributes(st, dataBuffer) ==
    Do(Do(Do([st EXCEPT !.clipSpace.positionBuffer = "live",
                        !.clipSpace.arrayData = dataBuffer],
             "createBuffer"), "bufferData(ARRAY_BUFFER)"), "vertexAttribPointer")

\* a color uniform of value null reaches gl.uniform3f(location, null)
nullColorUniform(uniforms) ==
    \/ uniforms.baseColor = NullColor
    \/ \E k \in 1..LayerCap : uniforms.waveLayers[k].color = NullColor

\* setupUniforms(uniforms); strict: the context rejects uniform3f(location, null)
setupUniforms(st, uniforms, strict) ==
    IF nullColorUniform(uniforms)
    THEN LET s1 == Do(st, "uniform3f(null)")
         IN  IF strict THEN [s1 EXCEPT !.threw = TRUE]
             ELSE Do([s1 EXCEPT !.clipSpace.uniforms = uniforms], "uniforms")
    ELSE Do([st EXCEPT !.clipSpace.uniforms = uniforms], "uniforms")

\* new ClipSpace({gl, shaders, attributes, elements, uniforms})
ClipSpace(st, geometry, uniforms, strict, failure) ==
    LET s1 == createProgram(st, failure)
    IN  IF s1.threw THEN s1
        ELSE setupUniforms(setElements(setupAttributes(s1, geometry.positions),
                                       geometry.indices),
                           uniforms, strict)

\* new WaveGradient(canvas, options): canvasIn is the canvas as handed in,
\* webgl2 whether it can yield a WebGL2 context
new_WaveGradient(canvasIn, webgl2, options, strict, failure) ==
    LET colors == options.colors
        s1 == acquireContext(Blank(canvasIn), webgl2)
    IN  IF s1.threw THEN s1
        ELSE
        LET s2 == Do([s1 EXCEPT !.canvas.width = canvasIn.clientWidth,
                                !.canvas.height = canvasIn.clientHeight], "viewport")
            geometry == initialGeometry(canvasIn, options.density)
            s3 == Do(s2, "createGeometry")
        IN  IF uniformsThrow(colors) THEN [s3 EXCEPT !.threw = TRUE]
            ELSE
            LET uniforms ==
                    [baseColor  |-> parseRGB(colors[1].chars),
                     realtime   |-> options.time,
                     resolution |-> <<canvasIn.clientWidth, canvasIn.clientHeight>>,
                     seed       |-> options.seed,
                     waveLayers |-> waveLayers(colors, options.seed)]
                s4 == ClipSpace(s3, geometry, uniforms, strict, failure)
            IN  IF s4.threw THEN s4
                ELSE [s4 EXCEPT
                        !.self = [gl |-> "gl", clipSpace |-> "clipSpace",
                                  density |-> options.density, speed |-> options.speed,
                                  frameInterval |-> MsPerSecond \div options.fps,
                                  lastFrameTime |-> 0, shouldRender |-> TRUE,
                                  drawCount |-> geometry.count, time |-> options.time],
                        !.frames = <<"render">>]

\* Inputs of the construction
CanvasSizes == {<<0, 50>>, <<1, 1>>, <<17, 25>>, <<50, 50>>, <<100, 50>>, <<300, 150>>}
\* density as numerators over DensityDen; [0.06, 0.16] is the default
Densities == {<<6, 16>>, <<16, 6>>, <<50, 25>>, <<100, 100>>}
\* the default backing size of a canvas element
DefaultCanvasSize == <<300, 150>>

\* a colors list of length n whose element at position bad (0: none) is b
ColorsOf(n, bad, b) ==
    [i \in 1..n |-> IF i = bad THEN b ELSE Palette[((i - 1) % Len(Palette)) + 1]]

ColorLists ==
    {ColorsOf(n, 0, NotAString) : n \in 0..MaxColors}
        \cup {ColorsOf(n[1], n[2], b) :
                n \in {m \in (1..MaxColors) \X (1..MaxColors) : m[2] <= m[1]},
                b \in BadStrings \cup {NotAString}}

\* the colors list is 1 to 10 strings that parseRGB accepts
ValidColors(colors) ==
    /\ Len(colors) \in 1..10
    /\ \A i \in 1..Len(colors) :
          colors[i].type = "string" /\ parseRGB(colors[i].chars) # NullColor

\* SpecNew: construction.  obs holds what the constructor is called with.
NewInit ==
    \E size \in CanvasSizes, density \in Densities, colors \in ColorLists,
       seed \in 0..MaxSeed, webgl2 \in BOOLEAN, strict \in BOOLEAN,
       failure \in ProgramFailures :
        /\ failure # "none" =>
              webgl2 /\ ~strict /\ seed = 0 /\ colors = ColorsOf(4, 0, NotAString)
        /\ self = NoEngine
        /\ clipSpace = NoGpuObjects
        /\ canvas = [width |-> DefaultCanvasSize[1], height |-> DefaultCanvasSize[2],
                     clientWidth |-> size[1], clientHeight |-> size[2]]
        /\ pending = <<>>
        /\ running = <<>>
        /\ now = 0
        /\ lastOp = "none"
        /\ effects = <<>>
        /\ threw = FALSE
        /\ obs = [options |-> [colors |-> colors, seed |-> seed, density |-> density,
                               fps |-> 250, speed |-> DefaultSpeed, time |-> 0],
                  webgl2 |-> webgl2, strict |-> strict, failure |-> failure]

Construct ==
    /\ lastOp = "none"
    /\ Apply("constructor", new_WaveGradient(canvas, obs.webgl2, obs.options, obs.strict,
                                             obs.failure),
             pending)
    /\ UNCHANGED <<now, running, obs>>

NewNext == Construct

SpecNew == NewInit /\ [][NewNext]_vars

---------------------------------------------------------------------------
\* Claims checked under SpecNew

Constructed == lastOp = "constructor" /\ ~threw
Rejected == threw /\ pending = <<>> /\ self = NoEngine

\* C11 (as claimed): construction with a colors list of length 0 or of more
\* than 10 elements is rejected: no engine is returned, no tick is scheduled.
C11_BadLengthRejected ==
    (lastOp = "constructor" /\ Len(obs.options.colors) \notin 1..10) => Rejected

\* C12 (as claimed): construction with 1 to 10 colors one of which is not a
\* valid color string is rejected, and no null color reaches a uniform.
C12_BadColorRejected ==
    (/\ lastOp = "constructor"
     /\ Len(obs.options.colors) \in 1..10
     /\ ~ValidColors(obs.options.colors))
        => Rejected /\ ~Has(effects, "uniform3f(null)")

\* C13 (as claimed): a construction that fails although the surface yields a
\* context (so it fails on its configuration) has acquired no context and
\* created no shader, program or buffer.
C13_NothingAllocatedOnFailure ==
    (lastOp = "constructor" /\ threw /\ obs.webgl2)
        => effects = <<>> /\ clipSpace = NoGpuObjects

\* C14: when the surface cannot yield a WebGL2 context the constructor
\* throws, no GPU object is created and no tick is scheduled.
C14_NoContextIsFatal ==
    (lastOp = "constructor" /\ ~obs.webgl2)
        => Rejected /\ effects = <<>> /\ clipSpace = NoGpuObjects

C14_Witness == lastOp = "constructor" /\ ~obs.webgl2 /\ threw /\ ValidColors(obs.options.colors)

---------------------------------------------------------------------------
\* More claims checked under Spec

\* C18: a value written to time between ticks is what time reads afterwards;
\* no handler but a drawn tick changes it; and the tick that draws next
\* writes to the realtime uniform that value plus
\* min(delta, frameInterval) * speed.
C18_WrittenTimeIsBase ==
    [][/\ (lastOp' = "setTime" => self'.time \in TimeWrites)
       /\ ((lastOp' = "render" /\ Has(effects', "drawElements")) =>
              /\ clipSpace'.uniforms.realtime =
                    self.time + self.speed * Min(now' - self.lastFrameTime, self.frameInterval)
              /\ self'.time = clipSpace'.uniforms.realtime)
       /\ ((lastOp' # "setTime" /\ ~Has(effects', "drawElements")) =>
              self'.time = self.time)]_vars

C18_Witness ==
    /\ lastOp = "render" /\ Has(effects, "drawElements")
    /\ obs.timeWrites = 1
    /\ self.time = 22 /\ clipSpace.uniforms.realtime = 22

\* C20: a tick of a running engine with now - lastFrameTime < frameInterval
\* issues no draw, leaves time, lastFrameTime and the realtime uniform as
\* they were, and registers exactly the next tick.
C20_SkippedTick ==
    [][(/\ lastOp' = "render"
        /\ self.shouldRender
        /\ now' - self.lastFrameTime < self.frameInterval) =>
          /\ ~Has(effects', "drawElements")
          /\ ~Has(effects', "uniform1f(realtime)")
          /\ self'.time = self.time
          /\ self'.lastFrameTime = self.lastFrameTime
          /\ clipSpace'.uniforms.realtime = clipSpace.uniforms.realtime
          /\ pending' = Tail(pending) \o <<"render">>]_vars

C20_Witness ==
    /\ lastOp = "render" /\ self.shouldRender
    /\ ~Has(effects, "drawElements") /\ Has(effects, "createGeometry")
    /\ pending = <<"render">>

---------------------------------------------------------------------------
\* More claims checked under SpecThree

\* C19 (as claimed): resize(), play() or pause() called after the engine was
\* destroyed reports an error and issues no GPU call.
C19_AfterDestroyReportsError ==
    [][(Disposed /\ lastOp' \in {"play", "pause", "resize"}) =>
          threw' /\ NoGpuCall(effects')]_vars

---------------------------------------------------------------------------
\* Claims about the frame loop, checked under Spec

\* C21: a tick handled while the engine is running (shouldRender) registers
\* exactly one next tick, and a tick handled after destroy() registers none.
C21_OneNextTickWhileRunning ==
    [][lastOp' = "render" =>
          /\ Len(pending) = 1
          /\ IF self.shouldRender
             THEN pending' = <<"render">>
             ELSE pending' = <<>>]_vars

C21_Witness == lastOp = "render" /\ ~self.shouldRender /\ pending = <<>> /\ now > 0

\* C29: after a drawn tick 0 <= now - lastFrameTime < frameInterval;
\* lastFrameTime is always a whole multiple of frameInterval away from its
\* initial value 0, never exceeds now and never decreases.
C29_LastFrameTime ==
    [][/\ self'.lastFrameTime % self'.frameInterval = 0
       /\ self'.lastFrameTime <= now'
       /\ self'.lastFrameTime >= self.lastFrameTime
       /\ ((lastOp' = "render" /\ Has(effects', "drawElements")) =>
              /\ 0 <= now' - self'.lastFrameTime
              /\ now' - self'.lastFrameTime < self'.frameInterval)]_vars

C29_Witness ==
    /\ lastOp = "render" /\ Has(effects, "drawElements")
    /\ self.lastFrameTime > 0 /\ self.lastFrameTime < now

\* C25: a resize, called by the host or from a skipped tick, creates no GPU
\* buffer and sets up no attribute pointer; it uploads into the one position
\* buffer and the one index buffer the constructor created, which both stay
\* live as long as the engine is not destroyed.
C25_ResizeReusesBuffers ==
    [][lastOp' \in {"resize", "render"} =>
          /\ ~Has(effects', "createBuffer")
          /\ ~Has(effects', "vertexAttribPointer")
          /\ clipSpace'.positionBuffer = clipSpace.positionBuffer
          /\ clipSpace'.elementBuffer = clipSpace.elementBuffer
          /\ (self'.gl # NULL =>
                clipSpace'.positionBuffer = "live" /\ clipSpace'.elementBuffer = "live")
          /\ (Has(effects', "createGeometry") =>
                /\ Count(effects', "bufferData(ARRAY_BUFFER)") = 1
                /\ Count(effects', "bufferData(ELEMENT_ARRAY_BUFFER)") = 1)]_vars

C25_Witness ==
    /\ lastOp = "resize" /\ Has(effects, "bufferData(ARRAY_BUFFER)")
    /\ clipSpace.positionBuffer = "live" /\ clipSpace.elementBuffer = "live"

\* C26: at every draw the draw count is 6 ceil(dx w) ceil(dz h) for the
\* backing size (w, h) of the canvas, the size the engine last adopted, and
\* the uploaded position and index data were generated for that size.
C26_DrawCountMatchesSize ==
    (lastOp = "render" /\ Has(effects, "drawElements")) =>
        LET gridX == Ceil(Density[1] * canvas.width, DensityDen)
            gridZ == Ceil(Density[2] * canvas.height, DensityDen)
        IN  /\ self.drawCount = 6 * gridX * gridZ
            /\ clipSpace.arrayData.gridX = gridX /\ clipSpace.arrayData.gridZ = gridZ
            /\ clipSpace.elementData.gridX = gridX /\ clipSpace.elementData.gridZ = gridZ
            /\ clipSpace.elementData.length = self.drawCount

C26_Witness ==
    /\ lastOp = "render" /\ Has(effects, "drawElements")
    /\ obs.drawnWith = <<1, 1>>
    /\ canvas.width = 100 /\ self.drawCount = 288

---------------------------------------------------------------------------
\* More claims checked under SpecTwgl

\* C27 (as claimed): at most one animate callback is registered or waiting
\* to run at any time, whatever the order of play(), pause() and ticks.
C27_OneLoop ==
    Count(pending \o running, "animate") <= 1

---------------------------------------------------------------------------
\* More claims checked under SpecNew

\* C22 (as claimed): when building the program fails at any stage, no shader
\* object and no program object is left undeleted when the constructor throws.
C22_ProgramFailureCleansUp ==
    (lastOp = "constructor" /\ obs.failure # "none") =>
        /\ threw
        /\ clipSpace.vertexShader # "live"
        /\ clipSpace.fragmentShader # "live"
        /\ clipSpace.program # "live"

---------------------------------------------------------------------------
\* Contents of the geometry buffers
\* (packages/wave-gradient/src/wave-gradient.js, lines 364-400 and 831-876)
\*
\* A buffer is held as the grid it was generated for; positions_at and
\* indices_at give what the two loop nests of createGeometry write at a
\* given place of it.  A coordinate is the rational num/den as the loops
\* compute it; den = 0 is the NaN of 0/0.

positions_at_frontToBack(buffer, n) ==
    LET z == n \div (buffer.gridX + 1)
        x == buffer.gridX - (n % (buffer.gridX + 1))
    IN  [clipX |-> [num |-> 2 * x - buffer.gridX, den |-> buffer.gridX],
         clipY |-> [num |-> 2 * z - buffer.gridZ, den |-> buffer.gridZ],
         v     |-> [num |-> z, den |-> buffer.gridZ]]

\* the vertex written n-th (from 0): row z = gridZ - n div (gridX + 1), from
\* gridZ down to 0, and in it x from gridX down to 0
positions_at(buffer, n) ==
    LET z == buffer.gridZ - (n \div (buffer.gridX + 1))
        x == buffer.gridX - (n % (buffer.gridX + 1))
    IN  [clipX |-> [num |-> 2 * x - buffer.gridX, den |-> buffer.gridX],
         clipY |-> [num |-> 2 * z - buffer.gridZ, den |-> buffer.gridZ],
         v     |-> [num |-> z, den |-> buffer.gridZ]]

\* the six index expressions of the cell (z, x), in the order they are written
cellIndices_flipped(z, x, verticesAcross) ==
    << (z + 0) * verticesAcross + x,
       (z + 0) * verticesAcross + x + 1,
       (z + 1) * verticesAcross + x,
       (z + 0) * verticesAcross + x + 1,
       (z + 1) * verticesAcross + x,
       (z + 1) * verticesAcross + x + 1 >>

cellIndices(z, x, verticesAcross) ==
    << (z + 0) * verticesAcross + x,
       (z + 0) * verticesAcross + x + 1,
       (z + 1) * verticesAcross + x,
       (z + 0) * verticesAcross + x + 1,
       (z + 1) * verticesAcross + x + 1,
       (z + 1) * verticesAcross + x >>

earlier_cellIndices(z, x, verticesAcross) ==
    << (z + 0) * verticesAcross + x,
       (z + 0) * verticesAcross + x + 1,
       (z + 1) * verticesAcross + x,
       (z + 1) * verticesAcross + x + 1,
       (z + 1) * verticesAcross + x,
       (z + 0) * verticesAcross + x + 1 >>

\* the value the loop computes for place i (from 0) of the index buffer:
\* cells row by row, z from 0, six places per cell
indexValue(buffer, i, earlier) ==
    LET cell == i \div 6
        z == cell \div buffer.gridX
        x == cell % buffer.gridX
    IN  IF earlier THEN earlier_cellIndices(z, x, buffer.gridX + 1)[(i % 6) + 1]
        ELSE cellIndices(z, x, buffer.gridX + 1)[(i % 6) + 1]

\* view.setUint32(...): the value as a 32-bit unsigned integer, that is the
\* value modulo 2^32, taken as its low and high 16-bit halves
indices_at(buffer, i) ==
    LET value == indexValue(buffer, i, FALSE)
    IN  (value % (2 ^ 16)) + (2 ^ 16) * ((value \div (2 ^ 16)) % (2 ^ 16))

\* the Uint16Array element: the value modulo 2^16
earlier_indices_at(buffer, i) == indexValue(buffer, i, TRUE) % (2 ^ 16)

\* createGeometry({ width, depth, density }) of the earlier variant
earlier_createGeometry(width, depth, density) ==
    LET gridX == Ceil(density[1] * width, DensityDen)
        gridZ == Ceil(density[1] * depth, DensityDen)
        vertices == (gridX + 1) * (gridZ + 1)
    IN  [positions |-> [gridX |-> gridX, gridZ |-> gridZ, length |-> 3 * vertices],
         indices   |-> [gridX |-> gridX, gridZ |-> gridZ, length |-> 3 * gridX * gridZ * 2]]

\* SpecGeometry: createGeometry applied to a surface size and a density.
\* obs holds the arguments and which createGeometry is called.
GeometrySizes == {0, 1, 17, 50, 100, 256}
GeometryDensities == {<<6, 16>>, <<50, 25>>, <<100, 100>>}

GeometryInit ==
    \E width \in GeometrySizes, depth \in GeometrySizes,
       density \in GeometryDensities, earlier \in BOOLEAN :
        /\ obs = [width |-> width, depth |-> depth, density |-> density,
                  earlier |-> earlier]
        /\ self = NoEngine
        /\ clipSpace = NoGpuObjects
        /\ canvas = [width |-> width, height |-> depth,
                     clientWidth |-> width, clientHeight |-> depth]
        /\ pending = <<>>
        /\ running = <<>>
        /\ now = 0
        /\ lastOp = "none"
        /\ effects = <<>>
        /\ threw = FALSE

Generate ==
    /\ lastOp = "none"
    /\ LET geometry == IF obs.earlier
                       THEN earlier_createGeometry(obs.width, obs.depth, obs.density)
                       ELSE initialGeometry(canvas, obs.density)
       IN  clipSpace' = [clipSpace EXCEPT !.arrayData = geometry.positions,
                                          !.elementData = geometry.indices]
    /\ lastOp' = "createGeometry"
    /\ effects' = <<"createGeometry">>
    /\ UNCHANGED <<self, canvas, now, pending, running, threw, obs>>

GeometryNext == Generate

SpecGeometry == GeometryInit /\ [][GeometryNext]_vars

---------------------------------------------------------------------------
\* Claims checked under SpecGeometry

Generated == lastOp = "createGeometry"

\* twice the signed area of the triangle of the vertices written p-th, q-th
\* and r-th, scaled by gridX * gridZ
SignedArea(buffer, p, q, r) ==
    LET P == positions_at(buffer, p)
        Q == positions_at(buffer, q)
        R == positions_at(buffer, r)
    IN  (Q.clipX.num - P.clipX.num) * (R.clipY.num - P.clipY.num)
            - (Q.clipY.num - P.clipY.num) * (R.clipX.num - P.clipX.num)

\* C23: the index buffer of the ClipSpace createGeometry holds 6 indices per
\* grid cell; the two triangles of a cell use exactly the cell's four corner
\* vertices and share one diagonal, and all triangles have the same winding
\* with respect to the vertex positions.
C23_TwoTrianglesPerCell ==
    (Generated /\ ~obs.earlier) =>
        LET buffer == clipSpace.elementData
            gridX == buffer.gridX
            gridZ == buffer.gridZ
            across == gridX + 1
            Cells == 0..(gridX * gridZ - 1)
            T(cell, k) == indices_at(buffer, 6 * cell + k)
            First(cell) == SignedArea(clipSpace.arrayData, T(cell, 0), T(cell, 1), T(cell, 2))
            Second(cell) == SignedArea(clipSpace.arrayData, T(cell, 3), T(cell, 4), T(cell, 5))
        IN  /\ buffer.length = 6 * gridX * gridZ
            /\ \A cell \in Cells :
                  LET z == cell \div gridX
                      x == cell % gridX
                      a == z * across + x
                      b == z * across + x + 1
                      c == (z + 1) * across + x
                      d == (z + 1) * across + x + 1
                      T1 == {T(cell, 0), T(cell, 1), T(cell, 2)}
                      T2 == {T(cell, 3), T(cell, 4), T(cell, 5)}
                  IN  /\ Cardinality(T1) = 3 /\ Cardinality(T2) = 3
                      /\ T1 \cup T2 = {a, b, c, d}
                      /\ T1 \cap T2 \in {{a, d}, {b, c}}
            /\ \/ \A cell \in Cells : First(cell) > 0 /\ Second(cell) > 0
               \/ \A cell \in Cells : First(cell) < 0 /\ Second(cell) < 0

C23_Witness ==
    /\ Generated /\ ~obs.earlier
    /\ clipSpace.elementData.gridX = 3 /\ clipSpace.elementData.gridZ = 8

\* C24 (as claimed): the third coordinate v of the vertices, in the order
\* they are written, starts at 1, ends at 0 and never increases, and is the
\* same exactly within each run of gridX + 1 vertices.
C24_BackToFrontAlways ==
    (Generated /\ ~obs.earlier) =>
        LET buffer == clipSpace.arrayData
            count == (buffer.gridX + 1) * (buffer.gridZ + 1)
            v(n) == positions_at(buffer, n).v
        IN  /\ buffer.length = 3 * count
            /\ \A n \in 0..(count - 1) : v(n).den > 0
            /\ v(0).num = v(0).den
            /\ v(count - 1).num = 0
            /\ \A n \in 0..(count - 2) :
                  /\ v(n).num >= v(n + 1).num
                  /\ (v(n).num = v(n + 1).num) <=> ((n + 1) % (buffer.gridX + 1) # 0)

\* C24 (amended): the same for a surface with at least one row of cells
\* (gridZ >= 1); for gridZ = 0 the single row is written with v = 0/0.
C24_BackToFront ==
    (Generated /\ ~obs.earlier) =>
        LET buffer == clipSpace.arrayData
            count == (buffer.gridX + 1) * (buffer.gridZ + 1)
            v(n) == positions_at(buffer, n).v
        IN  /\ buffer.length = 3 * count
            /\ IF buffer.gridZ = 0
               THEN \A n \in 0..(count - 1) : v(n).den = 0
               ELSE /\ \A n \in 0..(count - 1) : v(n).den > 0
                    /\ v(0).num = v(0).den
                    /\ v(count - 1).num = 0
                    /\ \A n \in 0..(count - 2) :
                          /\ v(n).num >= v(n + 1).num
                          /\ (v(n).num = v(n + 1).num)
                                <=> ((n + 1) % (buffer.gridX + 1) # 0)

C24_Witness ==
    /\ Generated /\ ~obs.earlier
    /\ clipSpace.arrayData.gridX = 6 /\ clipSpace.arrayData.gridZ = 8

\* C30 (as claimed): in both versions of createGeometry every index held in
\* the index buffer is the value the loop computed (no wrap-around in the
\* element type) and is smaller than the number of vertices.
C30_IndicesInRange ==
    Generated =>
        LET buffer == clipSpace.elementData
            vertices == (buffer.gridX + 1) * (buffer.gridZ + 1)
            held(i) == IF obs.earlier THEN earlier_indices_at(buffer, i)
                       ELSE indices_at(buffer, i)
        IN  \A i \in 0..(buffer.length - 1) :
                /\ held(i) = indexValue(buffer, i, obs.earlier)
                /\ 0 <= held(i) /\ held(i) < vertices

---------------------------------------------------------------------------
\* SpecLive: the ClipSpace engine left running on a display that dispatches
\* animation frames at a fixed period, while the surface changes size.
\* obs holds the display's frame period (ms), the number of size changes and
\* the number of frames dispatched modulo 2 (successive frames differ).
\* render() uses timestamps only through now - this.lastFrameTime, so both
\* are kept relative to the frame dispatched last (now stays 0); speed is 0
\* (a frozen animation), which keeps this.time at 0.

MaxSizeChanges == 1

LiveInit ==
    \E size \in ClientSizes, fps \in FpsChoices, period \in 1..MaxStep :
        LET e == WaveGradient(size, fps, 0, 0)
        IN  /\ self = e.self
            /\ clipSpace = e.clipSpace
            /\ canvas = e.canvas
            /\ pending = e.frames
            /\ running = <<>>
            /\ now = 0
            /\ lastOp = "constructor"
            /\ effects = <<>>
            /\ threw = FALSE
            /\ obs = [period |-> period, changes |-> 0, frame |-> 0]

\* the next frame is one that render() skips (delta < this.frameInterval)
Skipped == (now + obs.period) - self.lastFrameTime < self.frameInterval

\* The display dispatches the next animation frame, one period after the last
LiveTick(random) ==
    /\ pending # <<>>
    /\ running = <<>>
    /\ LET timestamp == now + obs.period
           st == render(Machine, timestamp, random)
       IN  Apply("render", [st EXCEPT !.self.lastFrameTime = @ - timestamp],
                 Tail(pending))
    /\ now' = 0
    /\ obs' = [obs EXCEPT !.frame = (@ + 1) % 2]
    /\ UNCHANGED running

LiveFrame == \E random \in BOOLEAN : LiveTick(random)

\* the surface changes its displayed size
LiveSizeChange ==
    \E size \in ClientSizes :
        /\ running = <<>>
        /\ obs.changes < MaxSizeChanges
        /\ size # <<canvas.clientWidth, canvas.clientHeight>>
        /\ canvas' = [canvas EXCEPT !.clientWidth = size[1], !.clientHeight = size[2]]
        /\ obs' = [obs EXCEPT !.changes = @ + 1]
        /\ lastOp' = "sizeChange"
        /\ effects' = <<>>
        /\ threw' = FALSE
        /\ UNCHANGED <<self, clipSpace, now, pending, running>>

LiveNext == LiveFrame \/ LiveSizeChange

\* Frames keep being dispatched, and among the skipped frames Math.random()
\* exceeds 0.75 again and again.
SpecLive ==
    /\ LiveInit
    /\ [][LiveNext]_vars
    /\ WF_vars(LiveFrame)
    /\ SF_vars(Skipped /\ LiveTick(TRUE))

---------------------------------------------------------------------------
\* Claims checked under SpecLive

\* the geometry held by the GPU is not the one of the surface's size
StaleGeometry ==
    LET geometry == createGeometry(canvas.clientWidth * Density[1],
                                   canvas.clientHeight * Density[2])
    IN  \/ clipSpace.elementData # geometry.indices
        \/ clipSpace.arrayData # geometry.positions
        \/ self.drawCount # geometry.count

\* C28: while the engine runs, whenever the geometry is stale for the
\* surface's size, it is eventually rebuilt for that size.
C28_EventuallyRebuilt == StaleGeometry ~> ~StaleGeometry

====
